---- MODULE Spec2Model ----
(***************************************************************************)
(* Rocket Elevators Express API: the residential quote calculator          *)
(* (data/agentsAndPricing.js) and the GET /calc-residential route of       *)
(* app.js that guards it.                                                  *)
(*                                                                         *)
(* JavaScript values are modelled as follows.                              *)
(*   - a number is a record [k, n, d]: k = "fin" is the rational n/d in    *)
(*     lowest terms with d > 0; k = "nan", "inf", "-inf" are NaN and the   *)
(*     two infinities.  Doubles are modelled by exact rationals: within    *)
(*     the bounds of the model every intermediate double is within 1e-9 of *)
(*     the rational, far from any rounding boundary of ceil or toFixed.    *)
(*   - a string that is parsed or formatted is a sequence of one-character *)
(*     strings; a string that is only compared (tier, messages) is a       *)
(*     TLA+ string.                                                        *)
(*   - a query parameter is [present, s]: req.query.x is undefined when    *)
(*     present is FALSE and the string s otherwise.                        *)
(***************************************************************************)
EXTENDS Integers, Sequences, FiniteSets, TLC

\* Largest apartments / floors count enumerated as request input.
MaxApartments == 150
MaxFloors == 41
\* Largest number of other requests counted after the first recorded one.
MaxOthers == 2

----------------------------------------------------------------------------
(* JavaScript numbers *)

Abs(x) == IF x < 0 THEN -x ELSE x

RECURSIVE GCD(_, _)
GCD(a, b) == IF b = 0 THEN a ELSE GCD(b, a % b)

NaN == [k |-> "nan", n |-> 0, d |-> 1]
PosInfinity == [k |-> "inf", n |-> 0, d |-> 1]
NegInfinity == [k |-> "-inf", n |-> 0, d |-> 1]

\* The finite number n/d (d # 0), in lowest terms.
Rat(n, d) ==
    LET g == GCD(Abs(n), Abs(d))
        s == IF d < 0 THEN -1 ELSE 1
    IN  [k |-> "fin", n |-> s * (n \div g), d |-> s * (d \div g)]

Int2Num(i) == [k |-> "fin", n |-> i, d |-> 1]

\* Global isNaN applied to a number.
isNaN(x) == x.k = "nan"

\* Mutant: Number.isFinite in place of Number.isInteger.
NumberIsFinite(x) == x.k = "fin"

\* Number.isInteger applied to a number.
NumberIsInteger(x) == x.k = "fin" /\ x.d = 1

\* Mutant: x < 0, zero passes.
LessThanZero(x) ==
    CASE x.k = "fin" -> x.n < 0
      [] x.k = "-inf" -> TRUE
      [] OTHER -> FALSE

\* x <= 0 (false for NaN).
LeqZero(x) ==
    CASE x.k = "fin" -> x.n <= 0
      [] x.k = "-inf" -> TRUE
      [] OTHER -> FALSE

\* x / y for a finite x and finite y; y = 0 gives an infinity or NaN.
NumDiv(x, y) ==
    IF x.k # "fin" \/ y.k # "fin" THEN NaN
    ELSE IF y.n = 0
         THEN (IF x.n = 0 THEN NaN ELSE IF x.n > 0 THEN PosInfinity ELSE NegInfinity)
         ELSE Rat(x.n * y.d, x.d * y.n)

\* x * y; NaN is absorbing.
NumMul(x, y) ==
    IF x.k = "fin" /\ y.k = "fin" THEN Rat(x.n * y.n, x.d * y.d)
    ELSE IF x.k = "nan" \/ y.k = "nan" THEN NaN
    ELSE IF (x.k = "fin" /\ x.n = 0) \/ (y.k = "fin" /\ y.n = 0) THEN NaN
    ELSE LET neg(z) == z.k = "-inf" \/ (z.k = "fin" /\ z.n < 0)
         IN  IF neg(x) = neg(y) THEN PosInfinity ELSE NegInfinity

\* x + y; NaN is absorbing.
NumAdd(x, y) ==
    IF x.k = "fin" /\ y.k = "fin" THEN Rat(x.n * y.d + y.n * x.d, x.d * y.d)
    ELSE IF x.k = "nan" \/ y.k = "nan" THEN NaN
    ELSE IF x.k = "fin" THEN y
    ELSE IF y.k = "fin" THEN x
    ELSE IF x.k = y.k THEN x ELSE NaN

\* Math.ceil.
MathCeil(x) ==
    IF x.k # "fin" THEN x
    ELSE Int2Num(-((-(x.n)) \div x.d))

----------------------------------------------------------------------------
(* Number(string): ECMAScript StringToNumber *)

DecimalDigits == {"0", "1", "2", "3", "4", "5", "6", "7", "8", "9"}
WhiteSpace == {" "}

DigitVal(c) ==
    CASE c = "0" -> 0 [] c = "1" -> 1 [] c = "2" -> 2 [] c = "3" -> 3
      [] c = "4" -> 4 [] c = "5" -> 5 [] c = "6" -> 6 [] c = "7" -> 7
      [] c = "8" -> 8 [] c = "9" -> 9

DigitChar(i) ==
    CASE i = 0 -> "0" [] i = 1 -> "1" [] i = 2 -> "2" [] i = 3 -> "3"
      [] i = 4 -> "4" [] i = 5 -> "5" [] i = 6 -> "6" [] i = 7 -> "7"
      [] i = 8 -> "8" [] i = 9 -> "9"

RECURSIVE Pow10(_)
Pow10(e) == IF e = 0 THEN 1 ELSE 10 * Pow10(e - 1)

AllDigits(s) == \A i \in DOMAIN s : s[i] \in DecimalDigits

\* The value of a sequence of decimal digits (0 for the empty sequence).
RECURSIVE DigitsVal(_)
DigitsVal(s) ==
    IF s = <<>> THEN 0
    ELSE 10 * DigitsVal(SubSeq(s, 1, Len(s) - 1)) + DigitVal(s[Len(s)])

\* Strip leading and trailing white space.
RECURSIVE TrimString(_)
TrimString(s) ==
    IF s = <<>> THEN s
    ELSE IF s[1] \in WhiteSpace THEN TrimString(Tail(s))
    ELSE IF s[Len(s)] \in WhiteSpace THEN TrimString(SubSeq(s, 1, Len(s) - 1))
    ELSE s

\* Position of the first element of s in set cs, 0 if there is none.
FirstIn(s, cs) ==
    IF \E i \in DOMAIN s : s[i] \in cs
    THEN CHOOSE i \in DOMAIN s : s[i] \in cs /\ \A j \in 1..(i - 1) : s[j] \notin cs
    ELSE 0

\* ExponentPart after the e: an optional sign and at least one digit.
\* Gives <<ok, value>>.
ExponentVal(s) ==
    LET signed == s # <<>> /\ s[1] \in {"+", "-"}
        ds == IF signed THEN Tail(s) ELSE s
    IN  IF ds = <<>> \/ ~AllDigits(ds) THEN <<FALSE, 0>>
        ELSE <<TRUE, IF signed /\ s[1] = "-" THEN -DigitsVal(ds) ELSE DigitsVal(ds)>>

\* StrUnsignedDecimalLiteral: Infinity, digits[.digits][exp], .digits[exp].
StrUnsignedDecimal(s) ==
    IF s = <<"I", "n", "f", "i", "n", "i", "t", "y">> THEN PosInfinity
    ELSE
    LET ePos == FirstIn(s, {"e", "E"})
        mant == IF ePos = 0 THEN s ELSE SubSeq(s, 1, ePos - 1)
        ex == IF ePos = 0 THEN <<TRUE, 0>> ELSE ExponentVal(SubSeq(s, ePos + 1, Len(s)))
        dot == FirstIn(mant, {"."})
        ip == IF dot = 0 THEN mant ELSE SubSeq(mant, 1, dot - 1)
        fp == IF dot = 0 THEN <<>> ELSE SubSeq(mant, dot + 1, Len(mant))
        ok == /\ ex[1]
              /\ AllDigits(ip) /\ AllDigits(fp)
              /\ Len(ip) + Len(fp) > 0
        m == DigitsVal(ip) * Pow10(Len(fp)) + DigitsVal(fp)
        sc == Len(fp) - ex[2]
    IN  IF ~ok THEN NaN
        ELSE IF sc >= 0 THEN Rat(m, Pow10(sc)) ELSE Rat(m * Pow10(-sc), 1)

\* -x for a number.
Negate(x) ==
    CASE x.k = "fin" -> [x EXCEPT !.n = -(x.n)]
      [] x.k = "inf" -> NegInfinity
      [] x.k = "-inf" -> PosInfinity
      [] OTHER -> x

\* Value of a digit of a NonDecimalIntegerLiteral, -1 if c is no hex digit.
HexVal(c) ==
    CASE c \in DecimalDigits -> DigitVal(c)
      [] c \in {"a", "A"} -> 10 [] c \in {"b", "B"} -> 11 [] c \in {"c", "C"} -> 12
      [] c \in {"d", "D"} -> 13 [] c \in {"e", "E"} -> 14 [] c \in {"f", "F"} -> 15
      [] OTHER -> -1

RECURSIVE RadixVal(_, _)
RadixVal(s, base) ==
    IF s = <<>> THEN 0
    ELSE base * RadixVal(SubSeq(s, 1, Len(s) - 1), base) + HexVal(s[Len(s)])

\* Radix of a 0x / 0o / 0b prefix, 0 if s has none.
RadixOf(s) ==
    IF Len(s) < 2 \/ s[1] # "0" THEN 0
    ELSE CASE s[2] \in {"x", "X"} -> 16
           [] s[2] \in {"o", "O"} -> 8
           [] s[2] \in {"b", "B"} -> 2
           [] OTHER -> 0

\* NonDecimalIntegerLiteral: the prefix and at least one digit of the radix.
NonDecimalInteger(s) ==
    LET base == RadixOf(s)
        ds == SubSeq(s, 3, Len(s))
    IN  IF ds # <<>> /\ \A i \in DOMAIN ds : HexVal(ds[i]) >= 0 /\ HexVal(ds[i]) < base
        THEN Int2Num(RadixVal(ds, base))
        ELSE NaN

\* StringToNumber: white space is trimmed, the empty string is 0, a signed
\* decimal literal or an unsigned 0x/0o/0b literal is its value, anything
\* else is NaN.
StringToNumber(s) ==
    LET t == TrimString(s)
    IN  IF t = <<>> THEN Int2Num(0)
        ELSE IF RadixOf(t) # 0 THEN NonDecimalInteger(t)
        ELSE IF t[1] = "-" THEN Negate(StrUnsignedDecimal(Tail(t)))
        ELSE IF t[1] = "+" THEN StrUnsignedDecimal(Tail(t))
        ELSE StrUnsignedDecimal(t)

\* Mutant: a missing parameter counts as 0, as in Number(v || 0).
ToNumberOrZero(p) == IF p.present THEN StringToNumber(p.s) ELSE Int2Num(0)

\* Number(v) for a query parameter: undefined is NaN, a string is parsed.
ToNumber(p) == IF p.present THEN StringToNumber(p.s) ELSE NaN

----------------------------------------------------------------------------
(* Number.prototype.toFixed(2) *)

\* The decimal digits of a natural number.
RECURSIVE NatToChars(_)
NatToChars(i) ==
    IF i < 10 THEN <<DigitChar(i)>>
    ELSE Append(NatToChars(i \div 10), DigitChar(i % 10))

\* x.toFixed(2): the n with n/100 closest to x (the larger n of two equally
\* close ones), written with at least one digit before the point and two
\* after it; NaN and the infinities are written by name.
ToFixed2(x) ==
    CASE x.k = "nan" -> <<"N", "a", "N">>
      [] x.k = "inf" -> <<"I", "n", "f", "i", "n", "i", "t", "y">>
      [] x.k = "-inf" -> <<"-", "I", "n", "f", "i", "n", "i", "t", "y">>
      [] OTHER ->
            LET neg == x.n < 0
                a == Abs(x.n)
                n == (200 * a + x.d) \div (2 * x.d)
                m == NatToChars(n)
                padded == IF Len(m) = 1 THEN <<"0", "0">> \o m
                          ELSE IF Len(m) = 2 THEN <<"0">> \o m
                          ELSE m
                k == Len(padded)
                txt == SubSeq(padded, 1, k - 2) \o <<".">> \o SubSeq(padded, k - 1, k)
            IN  IF neg THEN <<"-">> \o txt ELSE txt

----------------------------------------------------------------------------
(* data/agentsAndPricing.js *)

\* pricing, agents: the two tables of the module.
\* req, res: the /calc-residential request (or direct call) being handled
\*   and its response; for the other routes req.op names the route and res
\*   holds the status and error.
\* params, out: the inputs (region, JSON body) and the payload of the other
\*   routes.
\* sent: the statuses of the responses written for the current request, in
\*   order.
\* first: history of the first /calc-residential request of the run, its
\*   response, and the number of requests handled since.
VARIABLES pricing, agents, req, res, params, out, sent, first

vars == <<pricing, agents, req, res, params, out, sent, first>>

\* Mutant: install rates of 10.1, 13.1 and 16.1 percent, whose totals end
\* in half a cent (7565 * 1.101 = 8329.065).
PricingTableHalfCent ==
    [standard |-> [unitPrice |-> Int2Num(7565), installRate |-> Rat(101, 1000)],
     premium |-> [unitPrice |-> Int2Num(12345), installRate |-> Rat(131, 1000)],
     excelium |-> [unitPrice |-> Int2Num(15400), installRate |-> Rat(161, 1000)]]

\* The pricing object literal: tier name -> unit price and install rate.
PricingTable ==
    [standard |-> [unitPrice |-> Int2Num(7565), installRate |-> Rat(10, 100)],
     premium |-> [unitPrice |-> Int2Num(12345), installRate |-> Rat(13, 100)],
     excelium |-> [unitPrice |-> Int2Num(15400), installRate |-> Rat(16, 100)]]

\* Property names every object literal inherits from Object.prototype.
ObjectPrototypeKeys ==
    {"constructor", "toString", "toLocaleString", "valueOf", "hasOwnProperty",
     "isPrototypeOf", "propertyIsEnumerable", "__proto__",
     "__defineGetter__", "__defineSetter__", "__lookupGetter__", "__lookupSetter__"}

\* A query parameter or argument that is undefined, or the string s.
\* Absent is an undefined tier, AbsentChars an undefined apartments / floors.
Absent == [present |-> FALSE, s |-> ""]
AbsentChars == [present |-> FALSE, s |-> <<>>]
Present(s) == [present |-> TRUE, s |-> s]

\* The property key a value is converted to by obj[v].
PropertyKey(v) == IF v.present THEN v.s ELSE "undefined"

\* !v for undefined or a string: undefined and "" are falsy.
Falsy(v) == ~v.present \/ v.s = ""

\* obj[tier]: an own entry, a member inherited from Object.prototype (a
\* function or object without unitPrice / installRate, whose missing fields
\* become NaN in arithmetic), or undefined.
TierLookup(obj, tier) ==
    LET key == PropertyKey(tier)
    IN  IF key \in DOMAIN obj
        THEN [kind |-> "own", unitPrice |-> obj[key].unitPrice,
              installRate |-> obj[key].installRate]
        ELSE IF key \in ObjectPrototypeKeys
        THEN [kind |-> "inherited", unitPrice |-> NaN, installRate |-> NaN]
        ELSE [kind |-> "undefined", unitPrice |-> NaN, installRate |-> NaN]

\* !obj[tier]
TierMissing(obj, tier) == TierLookup(obj, tier).kind = "undefined"

InvalidTierMsg == "Invalid tier specified. Must be standard, premium, or excelium."
NonIntegerMsg == "Apartments and floors must be integers."
NonPositiveMsg == "Apartments and floors must be greater than zero."

\* Placeholder for a result field that does not exist.
NoNumber == [k |-> "none", n |-> 0, d |-> 1]

Thrown(msg) ==
    [kind |-> "throw", error |-> msg, elevatorsRequired |-> NoNumber, totalCost |-> NoNumber]
Returned(e, c) ==
    [kind |-> "return", error |-> "", elevatorsRequired |-> e, totalCost |-> c]

\* Mutant: integer division of apartments by floors.
ApartmentsPerFloorInteger(apartments, floors) == Int2Num(apartments.n \div floors.n)

\* Mutant: the operands of the division exchanged.
ApartmentsPerFloorSwapped(apartments, floors) == NumDiv(floors, apartments)

\* apartments / floors
ApartmentsPerFloor(apartments, floors) == NumDiv(apartments, floors)

\* Math.ceil(apartmentsPerFloor / 6)
ElevatorsPerColumn(apartmentsPerFloor) == MathCeil(NumDiv(apartmentsPerFloor, Int2Num(6)))

\* Mutant: Math.floor(floors / 20) + 1, one column too many at multiples of 20.
NumColumnsFloorPlusOne(floors) == Int2Num((floors.n \div (20 * floors.d)) + 1)

\* Math.ceil(floors / 20)
NumColumns(floors) == MathCeil(NumDiv(floors, Int2Num(20)))

TotalElevators(apartments, floors) ==
    NumMul(ElevatorsPerColumn(ApartmentsPerFloor(apartments, floors)), NumColumns(floors))

\* Mutant: the install cost is left out of the total.
TotalCostUnitOnly(totalElevators, entry) == NumMul(totalElevators, entry.unitPrice)

\* totalUnitCost + totalInstallCost for the looked-up entry.
TotalCost(totalElevators, entry) ==
    LET totalUnitCost == NumMul(totalElevators, entry.unitPrice)
        totalInstallCost == NumMul(totalUnitCost, entry.installRate)
    IN  NumAdd(totalUnitCost, totalInstallCost)

\* Number(totalCost.toFixed(2))
RoundedCost(totalCost) == StringToNumber(ToFixed2(totalCost))

\* Mutant: the numbers are validated before the tier.
calculateResidentialQuoteNumbersFirst(obj, apartments, floors, tier) ==
    IF ~NumberIsInteger(apartments) \/ ~NumberIsInteger(floors)
    THEN Thrown(NonIntegerMsg)
    ELSE IF LeqZero(apartments) \/ LeqZero(floors) THEN Thrown(NonPositiveMsg)
    ELSE IF TierMissing(obj, tier) THEN Thrown(InvalidTierMsg)
    ELSE LET totalElevators == TotalElevators(apartments, floors)
             entry == TierLookup(obj, tier)
         IN  Returned(totalElevators, RoundedCost(TotalCost(totalElevators, entry)))

\* Mutant: the tier must be an own key of the table.
calculateResidentialQuoteOwnTier(obj, apartments, floors, tier) ==
    IF PropertyKey(tier) \notin DOMAIN obj THEN Thrown(InvalidTierMsg)
    ELSE IF ~NumberIsInteger(apartments) \/ ~NumberIsInteger(floors)
    THEN Thrown(NonIntegerMsg)
    ELSE IF LeqZero(apartments) \/ LeqZero(floors) THEN Thrown(NonPositiveMsg)
    ELSE LET totalElevators == TotalElevators(apartments, floors)
             entry == TierLookup(obj, tier)
         IN  Returned(totalElevators, RoundedCost(TotalCost(totalElevators, entry)))

\* calculateResidentialQuote(apartments, floors, tier) on table obj:
\* apartments and floors are numbers, tier is undefined or a string.
calculateResidentialQuote(obj, apartments, floors, tier) ==
    IF TierMissing(obj, tier) THEN Thrown(InvalidTierMsg)
    ELSE IF ~NumberIsInteger(apartments) \/ ~NumberIsInteger(floors)
    THEN Thrown(NonIntegerMsg)
    ELSE IF LeqZero(apartments) \/ LeqZero(floors) THEN Thrown(NonPositiveMsg)
    ELSE LET totalElevators == TotalElevators(apartments, floors)
             entry == TierLookup(obj, tier)
         IN  Returned(totalElevators, RoundedCost(TotalCost(totalElevators, entry)))

----------------------------------------------------------------------------
(* app.js: GET /calc-residential *)

InvalidNumberMsg == "Apartments and floors must be valid numbers."
UnknownTierMsg == "Invalid or missing tier. Must be standard, premium, or excelium."

\* JSON.stringify of a number: NaN and the infinities become null.
JsonNumber(x) == IF x.k = "fin" THEN x ELSE [k |-> "null", n |-> 0, d |-> 1]

\* res.status(code).json({ error: msg })
ErrorResponse(code, msg) ==
    [status |-> code, error |-> msg, hasResult |-> FALSE,
     elevatorsRequired |-> NoNumber, totalCost |-> NoNumber]

\* res.json(result): status 200.
ResultResponse(result) ==
    [status |-> 200, error |-> "", hasResult |-> TRUE,
     elevatorsRequired |-> JsonNumber(result.elevatorsRequired),
     totalCost |-> JsonNumber(result.totalCost)]

\* Mutant: the tier is checked before the numbers.
CalcResidentialResponseTierFirst(obj, apartments, floors, tier) ==
    LET numApartments == ToNumber(apartments)
        numFloors == ToNumber(floors)
    IN  IF Falsy(tier) \/ TierMissing(obj, tier)
        THEN ErrorResponse(400, UnknownTierMsg)
        ELSE IF isNaN(numApartments) \/ isNaN(numFloors)
        THEN ErrorResponse(400, InvalidNumberMsg)
        ELSE IF ~NumberIsInteger(numApartments) \/ ~NumberIsInteger(numFloors)
        THEN ErrorResponse(400, NonIntegerMsg)
        ELSE IF LeqZero(numApartments) \/ LeqZero(numFloors)
        THEN ErrorResponse(400, NonPositiveMsg)
        ELSE LET result == calculateResidentialQuote(obj, numApartments, numFloors, tier)
             IN  IF result.kind = "throw"
                 THEN ErrorResponse(500, result.error)
                 ELSE ResultResponse(result)

\* The response of the handler to the query (apartments, floors, tier).
CalcResidentialResponse(obj, apartments, floors, tier) ==
    LET numApartments == ToNumber(apartments)
        numFloors == ToNumber(floors)
    IN  IF isNaN(numApartments) \/ isNaN(numFloors)
        THEN ErrorResponse(400, InvalidNumberMsg)
        ELSE IF ~NumberIsInteger(numApartments) \/ ~NumberIsInteger(numFloors)
        THEN ErrorResponse(400, NonIntegerMsg)
        ELSE IF LeqZero(numApartments) \/ LeqZero(numFloors)
        THEN ErrorResponse(400, NonPositiveMsg)
        ELSE IF Falsy(tier) \/ TierMissing(obj, tier)
        THEN ErrorResponse(400, UnknownTierMsg)
        ELSE LET result == calculateResidentialQuote(obj, numApartments, numFloors, tier)
             IN  IF result.kind = "throw"
                 THEN ErrorResponse(500, result.error)
                 ELSE ResultResponse(result)

----------------------------------------------------------------------------
(* Control flow of a route handler *)

\* A handler is a sequence of statements [taken, status, ret]: when taken,
\* the statement writes a response with that status, and returns from the
\* handler when ret.  SendsNoReturn is the mutant where no statement returns.
RECURSIVE SendsNoReturn(_)
SendsNoReturn(stmts) ==
    IF stmts = <<>> THEN <<>>
    ELSE IF ~Head(stmts).taken THEN SendsNoReturn(Tail(stmts))
    ELSE <<Head(stmts).status>> \o SendsNoReturn(Tail(stmts))

\* The statuses written while the statements run, in order.
RECURSIVE Sends(_)
Sends(stmts) ==
    IF stmts = <<>> THEN <<>>
    ELSE IF ~Head(stmts).taken THEN Sends(Tail(stmts))
    ELSE IF Head(stmts).ret THEN <<Head(stmts).status>>
    ELSE <<Head(stmts).status>> \o Sends(Tail(stmts))

Stmt(taken, status, ret) == [taken |-> taken, status |-> status, ret |-> ret]

\* GET /calc-residential: four guarded `return res.status(400).json(..)`
\* and the try / catch, whose two sends exclude each other.
CalcResidentialStmts(obj, apartments, floors, tier) ==
    LET numApartments == ToNumber(apartments)
        numFloors == ToNumber(floors)
    IN  << Stmt(isNaN(numApartments) \/ isNaN(numFloors), 400, TRUE),
           Stmt(~NumberIsInteger(numApartments) \/ ~NumberIsInteger(numFloors), 400, TRUE),
           Stmt(LeqZero(numApartments) \/ LeqZero(numFloors), 400, TRUE),
           Stmt(Falsy(tier) \/ TierMissing(obj, tier), 400, TRUE),
           Stmt(TRUE, IF calculateResidentialQuote(obj, numApartments, numFloors, tier).kind
                         = "return" THEN 200 ELSE 500, FALSE) >>

\* calculateResidentialQuote reads pricing[tier] and copies its two fields;
\* it assigns nothing to the table.  The two mutants change the entry in
\* place (a discount) and delete it after use.
PricingAfterQuoteDiscount(obj, tier) ==
    IF PropertyKey(tier) \in DOMAIN obj
    THEN [obj EXCEPT ![PropertyKey(tier)].unitPrice = NumMul(@, Rat(9, 10))]
    ELSE obj

PricingAfterQuoteDelete(obj, tier) ==
    [k \in DOMAIN obj \ {PropertyKey(tier)} |-> obj[k]]

PricingAfterQuote(obj, tier) == obj

----------------------------------------------------------------------------
(* data/agentsAndPricing.js: agents *)

Agent(first_name, last_name, email, region, rating, fee) ==
    [first_name |-> first_name, last_name |-> last_name, email |-> email,
     region |-> region, rating |-> rating, fee |-> fee]

North == <<"n", "o", "r", "t", "h">>
East == <<"e", "a", "s", "t">>
South == <<"s", "o", "u", "t", "h">>

\* The agents array; region, rating and fee are strings.
AgentsTable ==
    << Agent("Orlando", "Perez", "perez@rocket.elv", North, <<"9", "5">>, <<"1", "0", "0", "0", "0">>),
       Agent("Brutus", "Konway", "brutus@rocket.elv", North, <<"9", "2">>, <<"9", "0", "0", "0">>),
       Agent("Bob", "Boberson", "bob@rocket.elv", East, <<"8", "5">>, <<"1", "0", "0", "0", "0">>),
       Agent("John", "Johnson", "john@rocket.elv", South, <<"7", "5">>, <<"8", "0", "0", "0">>),
       Agent("Jeff", "Lebow", "carpet@rocket.elv", North, <<"9", "2">>, <<"1", "0", "0", "0", "0">>),
       Agent("Elmar", "Fade", "elmar@rocket.elv", South, <<"9", "5">>, <<"1", "0", "0", "0", "0">>),
       Agent("Zed", "Roles", "zebra@rocket.elv", North, <<"1", "0", "0">>, <<"4", "3", "2", "1">>),
       Agent("Dee", "Omega", "omega@rocket.elv", East, <<"7", "8">>, <<"7", "0", "0", "0">>),
       Agent("Aaron", "De Silva", "aaron@rocket.elv", East, <<"8", "9">>, <<"8", "9", "0", "0">>),
       Agent("Brian", "Bossman", "papi@rocket.elv", South, <<"1", "0", "0">>, <<"1", "0", "0", "0", "1">>),
       Agent("Bob", "Robertson", "bob2@rocket.elv", East, <<"8", "5">>, <<"1", "0", "0", "0", "0">>),
       Agent("George", "Cleese", "monty@rocket.elv", South, <<"8", "5">>, <<"5", "0", "0", "0">>),
       Agent("Tanim", "Homaini", "tanim@rocket.elv", South, <<"9", "6">>, <<"1", "0", "0", "0", "0">>),
       Agent("Roger", "Babbel", "loons@rocket.elv", North, <<"6", "0">>, <<"5", "0", "0", "0">>),
       Agent("Zach", "Van Den Zilch", "zach@rocket.elv", North, <<"7", "0">>, <<"6", "0", "0", "0">>),
       Agent("Al", "Stein", "relative@rocket.elv", South, <<"5", "4">>, <<"4", "0", "0", "0">>) >>

----------------------------------------------------------------------------
(* String.prototype.toLowerCase, parseFloat *)

UpperCase ==
    <<"A", "B", "C", "D", "E", "F", "G", "H", "I", "J", "K", "L", "M",
      "N", "O", "P", "Q", "R", "S", "T", "U", "V", "W", "X", "Y", "Z">>
LowerCase ==
    <<"a", "b", "c", "d", "e", "f", "g", "h", "i", "j", "k", "l", "m",
      "n", "o", "p", "q", "r", "s", "t", "u", "v", "w", "x", "y", "z">>

LowerChar(c) ==
    IF \E i \in DOMAIN UpperCase : UpperCase[i] = c
    THEN LowerCase[CHOOSE i \in DOMAIN UpperCase : UpperCase[i] = c]
    ELSE c

\* Mutant: the string is left as it is.
SameCase(s) == s

\* s.toLowerCase()
ToLowerCase(s) == [i \in DOMAIN s |-> LowerChar(s[i])]

\* A StrDecimalLiteral: an optional sign and an unsigned decimal literal.
SignedDecimal(t) ==
    IF t = <<>> THEN NaN
    ELSE IF t[1] = "-" THEN Negate(StrUnsignedDecimal(Tail(t)))
    ELSE IF t[1] = "+" THEN StrUnsignedDecimal(Tail(t))
    ELSE StrUnsignedDecimal(t)

\* parseFloat(s): the value of the longest prefix of the trimmed string
\* that is a decimal literal, NaN if there is none.
ParseFloat(s) ==
    LET t == TrimString(s)
        valid == {i \in 1..Len(t) : ~isNaN(SignedDecimal(SubSeq(t, 1, i)))}
    IN  IF valid = {} THEN NaN
        ELSE SignedDecimal(SubSeq(t, 1, CHOOSE i \in valid : \A j \in valid : j <= i))

\* parseFloat(v || 0) for a string v: the empty string is falsy.
ParseFloatOrZero(s) == IF s = <<>> THEN Int2Num(0) ELSE ParseFloat(s)

\* Number(x.toFixed(2))
NumberToFixed2(x) == StringToNumber(ToFixed2(x))

----------------------------------------------------------------------------
(* app.js: the other routes *)

\* req.query.region: undefined, a string, or an array of strings (the
\* parameter repeated in the URL).
RegionUndefined == [kind |-> "undefined", items |-> <<>>]
RegionString(s) == [kind |-> "string", items |-> <<s>>]
RegionArray(a, b) == [kind |-> "array", items |-> <<a, b>>]

\* A value of a JSON body field: absent, null, a string, a number, a boolean.
JUndefined == [t |-> "undefined", s |-> "", n |-> 0, b |-> FALSE]
JNull == [t |-> "null", s |-> "", n |-> 0, b |-> FALSE]
JString(s) == [t |-> "string", s |-> s, n |-> 0, b |-> FALSE]
JNumber(n) == [t |-> "number", s |-> "", n |-> n, b |-> FALSE]
JBool(b) == [t |-> "boolean", s |-> "", n |-> 0, b |-> b]

NoBody == [first_name |-> JUndefined, last_name |-> JUndefined, message |-> JUndefined]
NoParams == [region |-> RegionUndefined, body |-> NoBody]

\* The payload of a response of the other routes.
NoOut ==
    [text |-> <<>>, region |-> RegionUndefined,
     averageRating |-> NoNumber, averageFee |-> NoNumber,
     success |-> FALSE, received |-> NoBody, message |-> <<>>]

\* A response: status and error in res, payload in out.
Reply(code, msg, payload) == [res |-> ErrorResponse(code, msg), out |-> payload]

\* GET /hello
HelloReply == Reply(200, "", [NoOut EXCEPT !.text = <<"Hello World!">>])
HelloStmts == << Stmt(TRUE, 200, FALSE) >>

\* GET /status: port and process.env.ENVIRONMENT in a template string.
StatusReply(port, environment) ==
    Reply(200, "", [NoOut EXCEPT !.text = <<"Server is running on port ", port, " in ",
                                            environment, " environment">>])
StatusStmts == << Stmt(TRUE, 200, FALSE) >>

\* GET /error: the throw is caught and answered 500.
ErrorReply == Reply(500, "Something went wrong!", NoOut)
ErrorStmts == << Stmt(TRUE, 500, FALSE) >>

\* agents.map(agent => agent.email).join(',')
RECURSIVE JoinEmails(_)
JoinEmails(ag) ==
    IF ag = <<>> THEN <<>>
    ELSE IF Len(ag) = 1 THEN <<ag[1].email>>
    ELSE <<ag[1].email, ",">> \o JoinEmails(Tail(ag))

\* GET /email-list: map and join do not throw, the catch is not entered.
EmailListReply(ag) == Reply(200, "", [NoOut EXCEPT !.text = JoinEmails(ag)])
EmailListStmts == << Stmt(TRUE, 200, FALSE), Stmt(FALSE, 500, FALSE) >>

RegionRequiredMsg == "Region is required as query parameter"
NoAgentsMsg == "No agents found in the supplied region"
NotAFunctionMsg == "TypeError: regionParam.toLowerCase is not a function"

\* !regionParam: undefined and the empty string are falsy, an array is not.
RegionFalsy(region) ==
    \/ region.kind = "undefined"
    \/ region.kind = "string" /\ region.items[1] = <<>>

\* agents.filter(a => a.region.toLowerCase() === regionLower), reached with
\* a non-empty string.
FilterByRegion(ag, region) ==
    IF region.kind # "string" THEN <<>>
    ELSE LET regionLower == ToLowerCase(region.items[1])
         IN  SelectSeq(ag, LAMBDA a : ToLowerCase(a.region) = regionLower)

\* filtered.reduce((sum, a) => sum + parseFloat(a.rating || 0), 0)
RECURSIVE TotalRating(_)
TotalRating(filtered) ==
    IF filtered = <<>> THEN Int2Num(0)
    ELSE NumAdd(TotalRating(SubSeq(filtered, 1, Len(filtered) - 1)),
                ParseFloatOrZero(filtered[Len(filtered)].rating))

\* filtered.reduce((sum, a) => sum + parseFloat(a.fee || 0), 0)
RECURSIVE TotalFee(_)
TotalFee(filtered) ==
    IF filtered = <<>> THEN Int2Num(0)
    ELSE NumAdd(TotalFee(SubSeq(filtered, 1, Len(filtered) - 1)),
                ParseFloatOrZero(filtered[Len(filtered)].fee))

\* total / filtered.length
Average(total, filtered) == NumDiv(total, Int2Num(Len(filtered)))

\* GET /region-avg.  A region that is no string has no toLowerCase: the
\* TypeError leaves the handler and Express answers 500.  The 404 message
\* interpolates the region, kept here in out.region.
RegionAvgReply(ag, region) ==
    LET filtered == FilterByRegion(ag, region)
    IN  IF RegionFalsy(region) THEN Reply(400, RegionRequiredMsg, NoOut)
        ELSE IF region.kind # "string" THEN Reply(500, NotAFunctionMsg, NoOut)
        ELSE IF Len(filtered) = 0
        THEN Reply(404, NoAgentsMsg, [NoOut EXCEPT !.region = region])
        ELSE Reply(200, "",
                [NoOut EXCEPT
                    !.region = region,
                    !.averageRating =
                        JsonNumber(NumberToFixed2(Average(TotalRating(filtered), filtered))),
                    !.averageFee =
                        JsonNumber(NumberToFixed2(Average(TotalFee(filtered), filtered)))])

RegionAvgStmts(ag, region) ==
    << Stmt(RegionFalsy(region), 400, TRUE),
       Stmt(region.kind # "string", 500, TRUE),
       Stmt(Len(FilterByRegion(ag, region)) = 0, 404, TRUE),
       Stmt(TRUE, 200, FALSE) >>

MissingFieldsMsg == "Missing required fields"

\* Mutant: only a missing field counts.
JMissing(v) == v.t = "undefined"

\* !v for a JSON value.
JFalsy(v) ==
    \/ v.t \in {"undefined", "null"}
    \/ v.t = "string" /\ v.s = ""
    \/ v.t = "number" /\ v.n = 0
    \/ v.t = "boolean" /\ ~v.b

\* `${v}` for a JSON value.
TemplateString(v) ==
    CASE v.t = "string" -> v.s
      [] v.t = "number" -> ToString(v.n)
      [] v.t = "boolean" -> (IF v.b THEN "true" ELSE "false")
      [] v.t = "null" -> "null"
      [] OTHER -> "undefined"

\* The first check of POST /contact-us.
MissingFields(body) ==
    JFalsy(body.first_name) \/ JFalsy(body.last_name) \/ JFalsy(body.message)

\* POST /contact-us
ContactUsReply(body) ==
    IF MissingFields(body) THEN Reply(400, MissingFieldsMsg, NoOut)
    ELSE Reply(200, "",
            [NoOut EXCEPT
                !.success = TRUE,
                !.received = body,
                !.message = <<"Thank you for your message, ",
                              TemplateString(body.first_name), " ",
                              TemplateString(body.last_name), ".">>])

ContactUsStmts(body) ==
    << Stmt(MissingFields(body), 400, TRUE), Stmt(TRUE, 200, FALSE) >>

----------------------------------------------------------------------------
(* Inputs *)

\* The decimal text of an integer.
IntToChars(i) == IF i < 0 THEN <<"-">> \o NatToChars(-i) ELSE NatToChars(i)

\* Query strings that are not plain non-negative integers.
OddStrings ==
    { <<>>, <<" ">>, <<"a", "b", "c">>, <<"1", "2", "a", "b", "c">>,
      <<"1", "0", ".", "5">>, <<"7", ".", "2", "5">>, <<".", "5">>,
      <<"8", "0", ".", "0">>, <<"1", "0", ".", "0">>, <<"8", "0", ".">>,
      <<"-", "5">>, <<"-", "1">>, <<"-", "0", ".", "5">>, <<"+", "3">>,
      <<" ", "8", "0", " ">>, <<"1", "e", "2">>, <<"1", "5", "e", "-", "1">>,
      <<"0", "x", "1", "0">>, <<"0", "x">>, <<".">>, <<"-">>, <<"1", ".", "2", ".", "3">>,
      <<"I", "n", "f", "i", "n", "i", "t", "y">>, <<"N", "a", "N">> }

ApartmentsQuery ==
    {AbsentChars} \cup {Present(s) : s \in OddStrings}
             \cup {Present(IntToChars(i)) : i \in 0..MaxApartments}

FloorsQuery ==
    {AbsentChars} \cup {Present(s) : s \in OddStrings}
             \cup {Present(IntToChars(i)) : i \in 0..MaxFloors}

TierNames == {"standard", "premium", "excelium"}

TierValues ==
    {Absent} \cup {Present(s) : s \in TierNames
                       \cup {"", "Standard", "luxury", "constructor", "__proto__"}}

\* Numbers passed to calculateResidentialQuote when it is called directly.
ApartmentsArgs ==
    {Int2Num(i) : i \in (-5)..MaxApartments}
        \cup {NaN, PosInfinity, NegInfinity, Rat(21, 2), Rat(-1, 2), Rat(1, 2)}

FloorsArgs ==
    {Int2Num(i) : i \in (-5)..MaxFloors}
        \cup {NaN, PosInfinity, NegInfinity, Rat(21, 2), Rat(-1, 2), Rat(1, 2)}

\* req.query.region of the requests to /region-avg.
RegionValues ==
    { RegionUndefined, RegionString(<<>>),
      RegionString(North), RegionString(East), RegionString(South),
      RegionString(<<"N", "o", "r", "t", "h">>), RegionString(<<"N", "O", "R", "T", "H">>),
      RegionString(<<"E", "a", "s", "t">>), RegionString(<<"s", "o", "U", "t", "h">>),
      RegionString(<<"w", "e", "s", "t">>), RegionString(<<"n", "o", "r", "t", "h", " ">>),
      RegionString(<<"n", "o", "r">>),
      RegionArray(North, South) }

\* Values of a field of the JSON body of /contact-us.
FieldValues ==
    { JUndefined, JNull, JString(""), JString("Pablo"), JString("Seoane"),
      JNumber(0), JNumber(7), JBool(FALSE), JBool(TRUE) }

Bodies ==
    [first_name : FieldValues, last_name : FieldValues, message : FieldValues]

\* process.env.PORT || 3000 and process.env.ENVIRONMENT as text.
Ports == {"3000"}
Environments == {"undefined", "local"}

\* The inputs of the runs that record history: a few requests, repeated.
HistApartments == {Present(<<"8", "0">>), Present(<<"0">>), Present(<<"a", "b", "c">>)}
HistFloors == {Present(<<"1", "0">>), Present(<<"3", "0">>)}
HistTiers == {Present("standard"), Present("premium"), Present("constructor"), Absent}
HistApartmentsArgs == {Int2Num(80), Int2Num(0)}
HistFloorsArgs == {Int2Num(10)}
HistRegions == {RegionUndefined, RegionString(North), RegionArray(North, South)}
HistBodies ==
    [first_name : {JUndefined, JString("Pablo")}, last_name : {JString("Seoane")},
     message : {JString(""), JString("Pablo")}]

----------------------------------------------------------------------------
(* State machine *)

NoQuery == [apartments |-> AbsentChars, floors |-> AbsentChars]
NoArgs == [apartments |-> NaN, floors |-> NaN]

NoRequest == [op |-> "none", query |-> NoQuery, args |-> NoArgs, tier |-> Absent]
NoResponse == ErrorResponse(0, "")

\* No /calc-residential request has been recorded.
NoFirst == [set |-> FALSE, req |-> NoRequest, res |-> NoResponse, others |-> 0]

\* A request to one of the other routes.
RouteRequest(route) == [NoRequest EXCEPT !.op = route]

\* app.listen: the process waits for a request; req and res exist only
\* while one request is handled.
Init ==
    /\ pricing = PricingTable
    /\ agents = AgentsTable
    /\ req = NoRequest
    /\ res = NoResponse
    /\ params = NoParams
    /\ out = NoOut
    /\ sent = <<>>
    /\ first = NoFirst

Listening == req.op = "none"

\* The history after request r was answered with s: the first
\* /calc-residential request and its response are kept, and the later
\* requests that differ from it are counted.
FirstAfter(r, s) ==
    IF ~first.set
    THEN (IF r.op = "GET /calc-residential"
          THEN [set |-> TRUE, req |-> r, res |-> s, others |-> 0]
          ELSE first)
    ELSE IF r # first.req /\ first.others < MaxOthers
    THEN [first EXCEPT !.others = @ + 1]
    ELSE first

\* The history is recorded when rec, and left alone otherwise.
History(rec) == first' = IF rec THEN FirstAfter(req', res') ELSE first

\* One request GET /calc-residential?apartments=..&floors=..&tier=..
CalcResidentialOn(A, F, T, rec) ==
    /\ Listening
    /\ \E a \in A, f \in F, t \in T :
        /\ req' = [op |-> "GET /calc-residential",
                   query |-> [apartments |-> a, floors |-> f],
                   args |-> [apartments |-> ToNumber(a), floors |-> ToNumber(f)],
                   tier |-> t]
        /\ res' = CalcResidentialResponse(pricing, a, f, t)
        /\ sent' = Sends(CalcResidentialStmts(pricing, a, f, t))
        /\ pricing' = IF res'.status \in {200, 500}
                      THEN PricingAfterQuote(pricing, t)
                      ELSE pricing
    /\ params' = NoParams /\ out' = NoOut
    /\ UNCHANGED agents
    /\ History(rec)

CalcResidential == CalcResidentialOn(ApartmentsQuery, FloorsQuery, TierValues, FALSE)

\* The outcome of a direct call, as a response record: status 0, and
\* hasResult tells a return from a throw.
CallOutcome(result) ==
    [status |-> 0, error |-> result.error, hasResult |-> result.kind = "return",
     elevatorsRequired |-> result.elevatorsRequired, totalCost |-> result.totalCost]

\* One direct call calculateResidentialQuote(a, f, t); no response is sent.
CallCalculateOn(A, F, T, rec) ==
    /\ Listening
    /\ \E a \in A, f \in F, t \in T :
        /\ req' = [op |-> "calculateResidentialQuote",
                   query |-> NoQuery,
                   args |-> [apartments |-> a, floors |-> f],
                   tier |-> t]
        /\ res' = CallOutcome(calculateResidentialQuote(pricing, a, f, t))
        /\ pricing' = PricingAfterQuote(pricing, t)
    /\ params' = NoParams /\ out' = NoOut /\ sent' = <<>>
    /\ UNCHANGED agents
    /\ History(rec)

CallCalculate == CallCalculateOn(ApartmentsArgs, FloorsArgs, TierValues, FALSE)

\* A request to one of the other routes, answered with reply; the
\* statements stmts of its handler write the responses.
Answer(route, p, reply, stmts, rec) ==
    /\ Listening
    /\ req' = RouteRequest(route)
    /\ params' = p
    /\ res' = reply.res
    /\ out' = reply.out
    /\ sent' = Sends(stmts)
    /\ UNCHANGED <<pricing, agents>>
    /\ History(rec)

HelloOn(rec) == Answer("GET /hello", NoParams, HelloReply, HelloStmts, rec)

StatusOn(rec) ==
    \E port \in Ports, environment \in Environments :
        Answer("GET /status", NoParams, StatusReply(port, environment), StatusStmts, rec)

ErrorOn(rec) == Answer("GET /error", NoParams, ErrorReply, ErrorStmts, rec)

EmailListOn(rec) ==
    Answer("GET /email-list", NoParams, EmailListReply(agents), EmailListStmts, rec)

RegionAvgOn(R, rec) ==
    \E region \in R :
        Answer("GET /region-avg", [NoParams EXCEPT !.region = region],
               RegionAvgReply(agents, region), RegionAvgStmts(agents, region), rec)

ContactUsOn(B, rec) ==
    \E body \in B :
        Answer("POST /contact-us", [NoParams EXCEPT !.body = body],
               ContactUsReply(body), ContactUsStmts(body), rec)

Hello == HelloOn(FALSE)
Status == StatusOn(FALSE)
Error == ErrorOn(FALSE)
EmailList == EmailListOn(FALSE)
RegionAvg == RegionAvgOn(RegionValues, FALSE)
ContactUs == ContactUsOn(Bodies, FALSE)

\* The response has been sent (the call has returned): the request and its
\* response are dropped and the process waits for the next one.
Finish ==
    /\ ~Listening
    /\ req' = NoRequest
    /\ res' = NoResponse
    /\ params' = NoParams
    /\ out' = NoOut
    /\ sent' = <<>>
    /\ UNCHANGED <<pricing, agents, first>>

Next ==
    \/ CalcResidential \/ CallCalculate
    \/ Hello \/ Status \/ Error \/ EmailList \/ RegionAvg \/ ContactUs
    \/ Finish

Spec == Init /\ [][Next]_vars

\* The same handlers on a few inputs, with the history recorded.
HistCalcResidential == CalcResidentialOn(HistApartments, HistFloors, HistTiers, TRUE)
HistCallCalculate == CallCalculateOn(HistApartmentsArgs, HistFloorsArgs, HistTiers, TRUE)
HistHello == HelloOn(TRUE)
HistStatus == StatusOn(TRUE)
HistError == ErrorOn(TRUE)
HistEmailList == EmailListOn(TRUE)
HistRegionAvg == RegionAvgOn(HistRegions, TRUE)
HistContactUs == ContactUsOn(HistBodies, TRUE)

HistNext ==
    \/ HistCalcResidential \/ HistCallCalculate
    \/ HistHello \/ HistStatus \/ HistError \/ HistEmailList
    \/ HistRegionAvg \/ HistContactUs
    \/ Finish

SpecHistory == Init /\ [][HistNext]_vars

----------------------------------------------------------------------------
(* Vocabulary of the properties *)

IsRoute == req.op = "GET /calc-residential"
IsCall == req.op = "calculateResidentialQuote"

\* A positive integer count.
ValidCount(x) == x.k = "fin" /\ x.d = 1 /\ x.n > 0

\* One of the three fixed tier names, exactly.
ValidTier(t) == t.present /\ t.s \in TierNames

\* The request (a route request after conversion, or a direct call) carries
\* valid input: positive integers and a fixed tier name.
ValidInput ==
    /\ IsRoute \/ IsCall
    /\ ValidCount(req.args.apartments) /\ ValidCount(req.args.floors)
    /\ ValidTier(req.tier)

\* The least natural number k with P(k); every use has such a k below the bound.
LeastElevatorsPerColumn(apartments, floors) ==
    CHOOSE k \in 0..apartments :
        /\ 6 * k * floors >= apartments
        /\ \A j \in 0..(k - 1) : 6 * j * floors < apartments

LeastColumns(floors) ==
    CHOOSE m \in 0..floors :
        /\ 20 * m >= floors
        /\ \A j \in 0..(m - 1) : 20 * j < floors

\* The number of the text s, for stating expected values.
Chars80 == <<"8", "0">>
Chars10 == <<"1", "0">>

----------------------------------------------------------------------------
(* C1 *)

\* C1: for every valid input the quote's elevatorsRequired is
\* ceil((apartments / floors) / 6) * ceil(floors / 20) with real division:
\* the least k with 6*k*floors >= apartments times the least m with
\* 20*m >= floors.
C1_ElevatorsRequired ==
    ValidInput =>
        /\ res.hasResult
        /\ res.elevatorsRequired =
              Int2Num(LeastElevatorsPerColumn(req.args.apartments.n, req.args.floors.n)
                      * LeastColumns(req.args.floors.n))

\* A direct call where the division is not exact, the column needs two
\* elevators and there are two columns: 150 apartments on 21 floors.
C1_Witness ==
    /\ IsCall /\ ValidInput
    /\ req.args.apartments = Int2Num(150) /\ req.args.floors = Int2Num(21)
    /\ res.elevatorsRequired = Int2Num(4)

----------------------------------------------------------------------------
(* C2 *)

\* Unit price and install rate (in percent) of the three tiers as documented.
DocUnitPrice(name) ==
    CASE name = "standard" -> 7565 [] name = "premium" -> 12345 [] name = "excelium" -> 15400
DocRatePercent(name) ==
    CASE name = "standard" -> 10 [] name = "premium" -> 13 [] name = "excelium" -> 16

\* The exact total in thousandths: unit cost plus install cost.
ExactTotalMills(elevators, name) ==
    LET totalUnitCost == elevators * DocUnitPrice(name)
    IN  totalUnitCost * 1000 + totalUnitCost * DocRatePercent(name) * 10

\* x has at most two decimals and is within half a cent of mills / 1000.
IsRoundTo2(x, mills) ==
    /\ x.k = "fin"
    /\ 100 % x.d = 0
    /\ Abs(x.n * (100 \div x.d) * 10 - mills) <= 5

\* C2: for every valid input totalCost is totalUnitCost + totalInstallCost
\* rounded to 2 decimals, with totalUnitCost = elevatorsRequired * unitPrice,
\* totalInstallCost = totalUnitCost * installRate and the tier's documented
\* unit price and install rate.
C2_TotalCost ==
    ValidInput =>
        /\ res.hasResult
        /\ res.elevatorsRequired.k = "fin"
        /\ IsRoundTo2(res.totalCost, ExactTotalMills(res.elevatorsRequired.n, req.tier.s))

\* A premium quote whose install cost has cents: 12345 + 1604.85.
C2_Witness ==
    /\ ValidInput /\ req.tier = Present("premium")
    /\ res.elevatorsRequired = Int2Num(1)
    /\ res.totalCost = Rat(1394985, 100)

----------------------------------------------------------------------------
(* C3 *)

\* The response or outcome is the quote (elevators, cents / 100).
IsQuote(elevators, cents) ==
    /\ res.hasResult
    /\ res.status \in {0, 200}
    /\ res.elevatorsRequired = Int2Num(elevators)
    /\ res.totalCost = Rat(cents, 100)

RequestIs(apartments, floors, name) ==
    /\ IsRoute \/ IsCall
    /\ req.args.apartments = Int2Num(apartments)
    /\ req.args.floors = Int2Num(floors)
    /\ req.tier = Present(name)

\* C3: the three documented quotes: (80, 10, standard) is 2 elevators and
\* 16643.00; (100, 20, premium) is 1 and 13949.85; (150, 30, excelium) is 2
\* and 35728.00.
C3_DocumentedQuotes ==
    /\ RequestIs(80, 10, "standard") => IsQuote(2, 1664300)
    /\ RequestIs(100, 20, "premium") => IsQuote(1, 1394985)
    /\ RequestIs(150, 30, "excelium") => IsQuote(2, 3572800)

\* The first documented URL has been requested and answered 200.
C3_Witness ==
    /\ IsRoute
    /\ req.query.apartments = Present(Chars80) /\ req.query.floors = Present(Chars10)
    /\ req.tier = Present("standard")
    /\ res.status = 200 /\ IsQuote(2, 1664300)

----------------------------------------------------------------------------
(* Vocabulary of the error handling properties *)

\* The route answered 400 with this error and no quote.
Rejected400(msg) ==
    /\ res.status = 400 /\ res.error = msg
    /\ ~res.hasResult
    /\ res.elevatorsRequired = NoNumber /\ res.totalCost = NoNumber

\* The direct call threw this error and returned nothing.
ThrewError(msg) ==
    /\ res.status = 0 /\ res.error = msg
    /\ ~res.hasResult
    /\ res.elevatorsRequired = NoNumber /\ res.totalCost = NoNumber

\* A number with a non-zero fractional part.
Fractional(x) == x.k = "fin" /\ x.d # 1

\* An integer that is zero or negative.
NonPositiveInteger(x) == x.k = "fin" /\ x.d = 1 /\ x.n <= 0

\* The text of a query parameter has a decimal point.
WrittenWithFraction(p) == p.present /\ \E i \in DOMAIN p.s : p.s[i] = "."

\* apartments or floors violates a numeric constraint.
NumericViolation == ~ValidCount(req.args.apartments) \/ ~ValidCount(req.args.floors)

\* The four input-rejection messages of the route.
RejectionMessages == {InvalidNumberMsg, NonIntegerMsg, NonPositiveMsg, UnknownTierMsg}

----------------------------------------------------------------------------
(* C4 *)

\* C4: the route accepts a tier only if it is exactly one of standard,
\* premium, excelium; every other tier value (missing, differently cased,
\* unknown, any other string key) is rejected with the UnknownTier error and
\* no quote.
C4_OnlyFixedTiersAccepted ==
    (IsRoute /\ ~ValidTier(req.tier)) =>
        /\ res.status = 400
        /\ ~res.hasResult
        /\ ~NumericViolation => res.error = UnknownTierMsg

----------------------------------------------------------------------------
(* C5 *)

\* C5: apartments and floors are accepted only when written as integers: a
\* value written with a fractional component, such as 80.0, is rejected
\* with the NonIntegerInput error even if it is numerically integral.
C5_FractionalTextRejected ==
    (IsRoute /\ (WrittenWithFraction(req.query.apartments)
                    \/ WrittenWithFraction(req.query.floors))) =>
        /\ res.status = 400
        /\ ~res.hasResult
        /\ (~NumericViolation /\ ValidTier(req.tier)) => res.error = NonIntegerMsg

----------------------------------------------------------------------------
(* C6 *)

\* C6 as stated: a fractional apartments or floors is rejected with the
\* NonIntegerInput error by the route and by calculateResidentialQuote.
C6_FractionalIsNonInteger ==
    ((IsRoute \/ IsCall) /\ (Fractional(req.args.apartments) \/ Fractional(req.args.floors))) =>
        /\ ~res.hasResult
        /\ res.error = NonIntegerMsg

\* C6 amended: a fractional apartments or floors is always rejected and no
\* quote is computed from it (never from its floor, ceiling or truncation);
\* the error is NonIntegerInput unless an earlier check fails: the route
\* reports InvalidNumber when the other value is no number, and
\* calculateResidentialQuote reports its invalid-tier error when the tier
\* is no property of pricing.
C6_FractionalRejected ==
    (Fractional(req.args.apartments) \/ Fractional(req.args.floors)) =>
        /\ IsRoute =>
              Rejected400(IF isNaN(req.args.apartments) \/ isNaN(req.args.floors)
                          THEN InvalidNumberMsg ELSE NonIntegerMsg)
        /\ IsCall =>
              ThrewError(IF TierLookup(pricing, req.tier).kind = "undefined"
                         THEN InvalidTierMsg ELSE NonIntegerMsg)

\* The documented URL with floors=10.5 has been answered.
C6_Witness ==
    /\ IsRoute
    /\ req.query.apartments = Present(Chars80)
    /\ req.query.floors = Present(<<"1", "0", ".", "5">>)
    /\ req.tier = Present("standard")
    /\ Rejected400(NonIntegerMsg)

----------------------------------------------------------------------------
(* C7 *)

\* C7: when apartments or floors is not parseable as a number (abc, or the
\* parameter is absent), the route rejects the request with the
\* InvalidNumber error and computes no quote.
C7_InvalidNumber ==
    /\ (IsRoute /\ (isNaN(StringToNumber(req.query.apartments.s))
                       \/ isNaN(StringToNumber(req.query.floors.s))))
          => Rejected400(InvalidNumberMsg)
    /\ (IsRoute /\ (req.query.apartments \in {AbsentChars, Present(<<"a", "b", "c">>)}
                       \/ req.query.floors \in {AbsentChars, Present(<<"a", "b", "c">>)}))
          => Rejected400(InvalidNumberMsg)

\* apartments=abc with valid floors and tier has been answered.
C7_Witness ==
    /\ IsRoute
    /\ req.query.apartments = Present(<<"a", "b", "c">>)
    /\ req.query.floors = Present(Chars10)
    /\ req.tier = Present("standard")
    /\ Rejected400(InvalidNumberMsg)

----------------------------------------------------------------------------
(* C8 *)

\* C8 as stated: a zero or negative integer apartments or floors is
\* rejected with the NonPositiveInput error by the route and by
\* calculateResidentialQuote.
C8_NonPositiveIsNonPositive ==
    ((IsRoute \/ IsCall)
        /\ (NonPositiveInteger(req.args.apartments) \/ NonPositiveInteger(req.args.floors))) =>
        /\ ~res.hasResult
        /\ res.error = NonPositiveMsg

\* C8 amended: a zero or negative integer apartments or floors is always
\* rejected and no quote is computed (floors = 0 never reaches the
\* division); the error is NonPositiveInput unless an earlier check fails:
\* InvalidNumber or NonIntegerInput for the other value, and for
\* calculateResidentialQuote its invalid-tier error when the tier is no
\* property of pricing.
C8_NonPositiveRejected ==
    (NonPositiveInteger(req.args.apartments) \/ NonPositiveInteger(req.args.floors)) =>
        /\ IsRoute =>
              Rejected400(IF isNaN(req.args.apartments) \/ isNaN(req.args.floors)
                          THEN InvalidNumberMsg
                          ELSE IF req.args.apartments.d # 1 \/ req.args.floors.d # 1
                                  \/ req.args.apartments.k # "fin" \/ req.args.floors.k # "fin"
                          THEN NonIntegerMsg
                          ELSE NonPositiveMsg)
        /\ IsCall =>
              ThrewError(IF TierLookup(pricing, req.tier).kind = "undefined"
                         THEN InvalidTierMsg
                         ELSE IF req.args.apartments.d # 1 \/ req.args.floors.d # 1
                                 \/ req.args.apartments.k # "fin" \/ req.args.floors.k # "fin"
                         THEN NonIntegerMsg
                         ELSE NonPositiveMsg)

\* floors = 0 with valid apartments and tier has been answered.
C8_Witness ==
    /\ IsRoute
    /\ req.query.apartments = Present(Chars80)
    /\ req.query.floors = Present(<<"0">>)
    /\ req.tier = Present("standard")
    /\ Rejected400(NonPositiveMsg)

----------------------------------------------------------------------------
(* C9 *)

\* C9 as stated: calculateResidentialQuote reports the numeric error for
\* any arguments that violate a numeric constraint, whether or not the tier
\* is valid.
C9_NumbersBeforeTier ==
    (IsCall /\ (Fractional(req.args.apartments) \/ Fractional(req.args.floors)
                   \/ NonPositiveInteger(req.args.apartments)
                   \/ NonPositiveInteger(req.args.floors))) =>
        /\ ~res.hasResult
        /\ res.error \in {NonIntegerMsg, NonPositiveMsg}

\* C9 amended: the route validates the numeric constraints before the tier,
\* but calculateResidentialQuote looks the tier up first: for arguments
\* that violate a numeric constraint it reports the numeric error when the
\* tier is a property of pricing (so (0, -5, "standard") reports
\* NonPositiveInput) and its invalid-tier error otherwise.
C9_TierBeforeNumbersInCall ==
    /\ (IsRoute /\ NumericViolation) =>
          /\ res.status = 400 /\ ~res.hasResult
          /\ res.error \in {InvalidNumberMsg, NonIntegerMsg, NonPositiveMsg}
    /\ (IsCall /\ NumericViolation) =>
          /\ ~res.hasResult
          /\ IF TierLookup(pricing, req.tier).kind = "undefined"
             THEN res.error = InvalidTierMsg
             ELSE res.error \in {NonIntegerMsg, NonPositiveMsg}
    /\ (IsCall /\ req.args.apartments = Int2Num(0) /\ req.args.floors = Int2Num(-5)
               /\ ValidTier(req.tier)) => ThrewError(NonPositiveMsg)

\* calculateResidentialQuote(0, -5, "luxury") has thrown the tier error.
C9_Witness ==
    /\ IsCall
    /\ req.args.apartments = Int2Num(0) /\ req.args.floors = Int2Num(-5)
    /\ req.tier = Present("luxury")
    /\ ThrewError(InvalidTierMsg)

----------------------------------------------------------------------------
(* C10 *)

\* C10: each of the four input-rejection conditions is reported by the
\* route as a structured error with status 400 and a message distinct from
\* the other three; no violated constraint is reported with a 5xx status or
\* with a 200 result.
C10_RejectionsAre400 ==
    /\ Cardinality(RejectionMessages) = 4
    /\ (IsRoute /\ (NumericViolation \/ ~ValidTier(req.tier))) =>
          /\ res.status = 400
          /\ ~res.hasResult
          /\ res.error \in RejectionMessages

----------------------------------------------------------------------------
(* C11 *)

\* x is a non-negative number with at most two decimals.
IsCurrency(x) == x.k = "fin" /\ x.n >= 0 /\ 100 % x.d = 0

\* C11: every 200 response of the route and every value returned by
\* calculateResidentialQuote has elevatorsRequired a positive integer and
\* totalCost a non-negative number with at most 2 decimals, never NaN, null
\* or negative.
C11_QuoteResultShape ==
    ((IsRoute \/ IsCall) /\ res.hasResult) =>
        /\ ValidCount(res.elevatorsRequired)
        /\ IsCurrency(res.totalCost)

----------------------------------------------------------------------------
(* C12 *)

\* C12: two /calc-residential requests with the same parameters receive the
\* same response, whatever was requested before or in between.
C12_SameRequestSameResponse ==
    (first.set /\ req = first.req) => res = first.res

\* The first request is answered again with a quote after MaxOthers other
\* requests.
C12_Witness ==
    /\ first.set /\ first.others = MaxOthers
    /\ req = first.req
    /\ res = first.res /\ res.status = 200 /\ ValidInput

----------------------------------------------------------------------------
(* C13 *)

\* C13: after any sequence of requests to the routes, accepted or rejected,
\* the pricing table and the agents table equal their initial values.
C13_TablesUnchanged == pricing = PricingTable /\ agents = AgentsTable

\* A quote has been returned by the route and the tables are as at start.
C13_Witness ==
    /\ IsRoute /\ res.status = 200 /\ ValidInput
    /\ pricing = PricingTable /\ agents = AgentsTable

----------------------------------------------------------------------------
(* C14 *)

\* C14: calculateResidentialQuote called with a tier that is not one of the
\* fixed tier names throws and returns no result, for all apartments and
\* floors.
C14_UnknownTierThrows ==
    (IsCall /\ ~ValidTier(req.tier)) => (~res.hasResult /\ res.error # "")

----------------------------------------------------------------------------
(* C15 *)

\* A number that is neither NaN nor an integer.
NotWhole(x) == x.k # "nan" /\ ~(x.k = "fin" /\ x.d = 1)

\* An integer, of either sign.
Whole(x) == x.k = "fin" /\ x.d = 1

\* C15: the route applies its checks in the order InvalidNumber,
\* NonIntegerInput, NonPositiveInput, UnknownTier: a request is answered
\* with the error of the earliest violated check only, and the tier error
\* is given only when both numbers are positive integers.
C15_CheckPrecedence ==
    IsRoute =>
        LET a == req.args.apartments
            f == req.args.floors
        IN  /\ (a.k = "nan" \/ f.k = "nan") => Rejected400(InvalidNumberMsg)
            /\ (a.k # "nan" /\ f.k # "nan" /\ (NotWhole(a) \/ NotWhole(f)))
                  => Rejected400(NonIntegerMsg)
            /\ (Whole(a) /\ Whole(f) /\ (a.n <= 0 \/ f.n <= 0))
                  => Rejected400(NonPositiveMsg)
            /\ (~NumericViolation /\ (~req.tier.present \/ req.tier.s = ""))
                  => Rejected400(UnknownTierMsg)
            /\ res.error = UnknownTierMsg => ~NumericViolation

\* A request that fails three checks at once (apartments not a number,
\* floors fractional, tier unknown) is answered with the first error.
C15_Witness ==
    /\ IsRoute
    /\ req.args.apartments.k = "nan" /\ Fractional(req.args.floors)
    /\ ~ValidTier(req.tier) /\ TierLookup(pricing, req.tier).kind = "undefined"
    /\ Rejected400(InvalidNumberMsg)

----------------------------------------------------------------------------
(* C16 *)

\* The request is handled by a route.
IsHandled == req.op \notin {"none", "calculateResidentialQuote"}

\* C16: every request to a route receives exactly one response: on every
\* control path of a handler one response is written, never none and
\* never two.
C16_ExactlyOneResponse == IsHandled => sent = <<res.status>>

\* An early return of /calc-residential: the 400 is the only response.
C16_Witness ==
    /\ IsRoute /\ req.args.apartments.k = "nan" /\ ValidTier(req.tier)
    /\ sent = <<400>>

----------------------------------------------------------------------------
(* C17 *)

IsRegionAvg == req.op = "GET /region-avg"

\* The strings are equal up to letter case.
SameIgnoringCase(s, u) ==
    Len(s) = Len(u) /\ \A i \in DOMAIN s : LowerChar(s[i]) = LowerChar(u[i])

\* The agents of the region, by position in the table.
Selected(region) ==
    {i \in DOMAIN agents : SameIgnoringCase(agents[i].region, region)}

\* The sum of a field (written as a decimal integer) over the agents in S.
RECURSIVE SumOver(_, _)
SumOver(S, field) ==
    IF S = {} THEN 0
    ELSE LET i == CHOOSE j \in S : TRUE
         IN  DigitsVal(agents[i][field]) + SumOver(S \ {i}, field)

\* x has at most two decimals and is within half a cent of sum / count.
IsMeanTo2(x, sum, count) ==
    /\ x.k = "fin"
    /\ 100 % x.d = 0
    /\ 2 * Abs(x.n * (100 \div x.d) * count - 100 * sum) <= count

\* C17: for a region given as a non-empty string, /region-avg selects the
\* agents whose region equals it ignoring letter case and returns the
\* means of their rating and fee, each rounded to 2 decimals, with the
\* region as supplied.
C17_RegionAverages ==
    (IsRegionAvg /\ params.region.kind = "string" /\ params.region.items[1] # <<>>) =>
        LET sel == Selected(params.region.items[1])
        IN  /\ res.status = 200 <=> sel # {}
            /\ sel # {} =>
                /\ out.region = params.region
                /\ IsMeanTo2(out.averageRating, SumOver(sel, "rating"), Cardinality(sel))
                /\ IsMeanTo2(out.averageFee, SumOver(sel, "fee"), Cardinality(sel))

\* region=NORTH: the six agents of north, mean rating 509 / 6 = 84.83 and
\* mean fee 44321 / 6 = 7386.83.
C17_Witness ==
    /\ IsRegionAvg
    /\ params.region = RegionString(<<"N", "O", "R", "T", "H">>)
    /\ res.status = 200
    /\ out.region = params.region
    /\ out.averageRating = Rat(8483, 100)
    /\ out.averageFee = Rat(738683, 100)

----------------------------------------------------------------------------
(* C18 *)

\* The region parameter is missing or empty.
RegionMissing == params.region.kind = "undefined" \/ params.region = RegionString(<<>>)

\* C18: every request to /region-avg is answered with 400 when the region
\* is missing or empty, 404 when no agent matches it, and 200 with the two
\* averages otherwise.
C18_RegionAvgOutcomes ==
    IsRegionAvg =>
        /\ res.status \in {200, 400, 404}
        /\ res.status = 400 <=> RegionMissing
        /\ res.status = 200 =>
              /\ out.averageRating.k = "fin"
              /\ out.averageFee.k = "fin"

----------------------------------------------------------------------------
(* C19 *)

IsContactUs == req.op = "POST /contact-us"

\* The fields of the body that the handler requires.
RequiredFields == {"first_name", "last_name", "message"}

\* The field is absent or the empty string.
AbsentOrEmpty(v) == v.t = "undefined" \/ (v.t = "string" /\ v.s = "")

\* The field is absent, null, the empty string, the number 0 or false.
FalsyField(v) ==
    \/ AbsentOrEmpty(v)
    \/ v.t = "null"
    \/ v.t = "number" /\ v.n = 0
    \/ v.t = "boolean" /\ v.b = FALSE

\* The response is the 400 'Missing required fields'.
RejectedMissing ==
    /\ res.status = 400 /\ res.error = MissingFieldsMsg
    /\ ~out.success

\* The response is the success: the body echoed and a message that names
\* first_name and last_name.
Thanked ==
    /\ res.status = 200 /\ res.error = ""
    /\ out.success
    /\ out.received = params.body
    /\ Len(out.message) = 5
    /\ params.body.first_name.t = "string" => out.message[2] = params.body.first_name.s
    /\ params.body.last_name.t = "string" => out.message[4] = params.body.last_name.s

\* C19 as stated: the 400 is given if and only if a required field is
\* absent or empty, and the success otherwise.
C19_MissingIffAbsentOrEmpty ==
    IsContactUs =>
        IF \E k \in RequiredFields : AbsentOrEmpty(params.body[k])
        THEN RejectedMissing
        ELSE Thanked

\* C19, amended: the 400 is given if and only if a required field is falsy
\* (absent, null, the empty string, the number 0 or false), and the
\* success otherwise.
C19_MissingIffFalsy ==
    IsContactUs =>
        IF \E k \in RequiredFields : FalsyField(params.body[k])
        THEN RejectedMissing
        ELSE Thanked

\* A body whose first_name is the number 0, with the other two fields
\* given as non-empty strings, is answered 400.
C19_Witness ==
    /\ IsContactUs
    /\ params.body.first_name = JNumber(0)
    /\ params.body.last_name = JString("Seoane")
    /\ params.body.message = JString("Pablo")
    /\ RejectedMissing

----------------------------------------------------------------------------
(* C20 *)

\* C20: the 500 branch of the route is not reached: a request that passes
\* the four checks of the route is accepted by calculateResidentialQuote,
\* and every request ends in a 400 error or a 200 result.
C20_NoServerError ==
    IsRoute =>
        /\ res.status \in {200, 400}
        /\ 500 \notin {sent[i] : i \in DOMAIN sent}
        /\ res.status = 200 <=> res.hasResult
        /\ res.status = 400 => res.error \in RejectionMessages
        /\ (~NumericViolation /\ ~Falsy(req.tier) /\ ~TierMissing(pricing, req.tier))
              => res.status = 200

\* A request that passes the four checks with a tier inherited from
\* Object.prototype: the call returns and the answer is 200.
C20_Witness ==
    /\ IsRoute /\ ~NumericViolation
    /\ req.tier = Present("constructor")
    /\ res.status = 200 /\ res.hasResult /\ sent = <<200>>

----------------------------------------------------------------------------
(* C21 *)

\* The cost of one elevator in cents, unit price plus install cost.
CentsPerElevator(name) ==
    CASE name = "standard" -> 832150
      [] name = "premium" -> 1394985
      [] name = "excelium" -> 1786400

\* The total before rounding, as calculateResidentialQuote computes it from
\* the number of elevators of the result and the entry of the tier.
ExactTotal == TotalCost(res.elevatorsRequired, TierLookup(pricing, req.tier))

\* C21: for every valid input the exact total, unit cost plus install cost,
\* is a whole number of cents, elevatorsRequired times 832150, 1394985 or
\* 1786400 cents by tier, so the rounding to 2 decimals meets no halfway
\* case and returns the exact total.
C21_WholeCents ==
    ValidInput =>
        /\ res.hasResult /\ res.elevatorsRequired.k = "fin"
        /\ ExactTotal = Rat(res.elevatorsRequired.n * CentsPerElevator(req.tier.s), 100)
        /\ 100 % ExactTotal.d = 0
        /\ res.totalCost = ExactTotal

\* /calc-residential?apartments=150&floors=41&tier=premium: 3 elevators,
\* 41849.55 before and after rounding.
C21_Witness ==
    /\ IsRoute /\ ValidInput
    /\ req.args.apartments = Int2Num(150) /\ req.args.floors = Int2Num(41)
    /\ req.tier = Present("premium")
    /\ ExactTotal = Rat(4184955, 100)
    /\ res.totalCost = Rat(4184955, 100)

----------------------------------------------------------------------------
(* C22 *)

\* x <= y for finite numbers.
NumLeq(x, y) == x.k = "fin" /\ y.k = "fin" /\ x.n * y.d <= y.n * x.d

\* The quote for another number of apartments, same floors and tier.
QuoteFor(apartments) ==
    calculateResidentialQuote(pricing, Int2Num(apartments), req.args.floors, req.tier)

\* The quote for apartments1 is a result and is at most the quote of the
\* request, in elevators and in cost.
QuoteAtMost(apartments1) ==
    LET quote == QuoteFor(apartments1)
    IN  /\ quote.kind = "return"
        /\ NumLeq(quote.elevatorsRequired, res.elevatorsRequired)
        /\ NumLeq(quote.totalCost, res.totalCost)

\* The numbers of apartments compared with n: its predecessor, its half
\* and 1.  The predecessors chain: with every n of the range compared
\* with n - 1, every pair apartments1 <= apartments2 of the range is
\* ordered.
ComparedWith(n) == {n - 1, n \div 2, 1} \cap 1..n

\* C22: for fixed floors and tier the quote is monotone in apartments: for
\* valid apartments1 <= apartments2, elevatorsRequired and totalCost for
\* apartments1 are at most those for apartments2.
C22_MonotoneInApartments ==
    ValidInput =>
        \A apartments1 \in ComparedWith(req.args.apartments.n) : QuoteAtMost(apartments1)

\* (150, 10, excelium) is 3 elevators and 53592.00, and (75, 10, excelium)
\* is 2 elevators and 35728.00.
C22_Witness ==
    /\ IsCall /\ ValidInput
    /\ req.args.apartments = Int2Num(150) /\ req.args.floors = Int2Num(10)
    /\ req.tier = Present("excelium")
    /\ res.elevatorsRequired = Int2Num(3) /\ res.totalCost = Int2Num(53592)
    /\ 75 \in ComparedWith(req.args.apartments.n)
    /\ QuoteFor(75).elevatorsRequired = Int2Num(2)
    /\ QuoteFor(75).totalCost = Int2Num(35728)

====
